---- MODULE Spec2Model ----
(***************************************************************************)
(* The two-stage classical cipher of the image-steganography repository:   *)
(* HillCipher (src/src/ciphers/hill_cipher.py), VigenereCipher             *)
(* (src/src/ciphers/vigenere_cipher.py) and CipherEngine                   *)
(* (src/src/cipher_engine.py).                                             *)
(*                                                                         *)
(* A Python str is a sequence of code points (integers); a key matrix is a *)
(* sequence of rows, each a sequence of integers.  A call returns a record *)
(* [err, val]: err = "none" and val the returned value, or err the         *)
(* exception that the call raises.                                         *)
(***************************************************************************)
EXTENDS Integers, Sequences, FiniteSets, TLC

VARIABLES
    given,    \* the class the caller constructs and the keys it passes
    caption,  \* <<t>> once the caller has the string t to work on, <<>> before
    cipher,   \* the instance the caller holds, or NoCipher
    call,     \* the last call: its operation and arguments
    result,   \* what the last call returned or raised: [err, val]
    seen      \* <<>>, or the argument and the result of the first encrypt call
              \* and the number of calls made since (counted up to MaxLater)

vars == <<given, caption, cipher, call, result, seen>>

(***************************************************************************)
(* Bounds of the model.                                                    *)
(***************************************************************************)
\* longest text over TextChars passed to encrypt / decrypt
MaxLen == 3
\* longest text over CleanChars (two blocks of a 2x2 key)
MaxCleanLen == 4
\* longest text over HistoryChars, for sequences of calls on different texts
MaxHistoryLen == 2
\* calls counted after the first encrypt call
MaxLater == 2
\* longest substitution key over KeyChars
MaxKeyLen == 2
\* entries of the 2x2 key matrices used for calls run over 0..MaxEntry
MaxEntry == 3
\* entries of the 2x2 key matrices tried by the constructor run over -1..MaxWide2
MaxWide2 == 4
\* entries of the 3x3 key matrices tried by the constructor run over 0..MaxWide3
MaxWide3 == 1
\* the rows of a parsed key, and the entries of a row
MaxRows == 2
MaxRowLen == 2
\* the labels of a caption
MaxLabels == 3

(***************************************************************************)
(* Characters.  str.isalpha and str.upper are those of Python (Unicode):   *)
(* the modelled universe holds the ASCII letters, three non-letters, and   *)
(* one representative of each kind of non-ASCII letter.                    *)
(***************************************************************************)
\* ord('A')
OrdA == 65
\* the modulus of both ciphers
Modulus == 26
\* the filler letter 'X'
CharX == 88

\* 'e' with acute: isalpha, upper() is the single letter 201
CharEAcute == 233
\* sharp s: isalpha, upper() is the two letters "SS"
CharSharpS == 223
\* j with caron: isalpha, upper() is 'J' followed by the combining caron 780
CharJCaron == 496
\* combining caron: not isalpha
CharCaron == 780
\* the upper case of CharEAcute
CharEAcuteUpper == 201

AsciiUpper == 65..90
AsciiLower == 97..122

\* str.isalpha() of a one-character string
isalpha(c) ==
    c \in AsciiUpper \cup AsciiLower \cup {CharEAcute, CharEAcuteUpper, CharSharpS, CharJCaron}

\* str.upper() of a one-character string: a string of one or more characters
upper(c) ==
    IF c \in AsciiLower THEN <<c - 32>>
    ELSE IF c = CharEAcute THEN <<CharEAcuteUpper>>
    ELSE IF c = CharSharpS THEN <<83, 83>>
    ELSE IF c = CharJCaron THEN <<74, CharCaron>>
    ELSE <<c>>

Ok(v) == [err |-> "none", val |-> v]
Raise(e) == [err |-> e, val |-> <<>>]

\* ''.join(c.upper() for c in text if c.isalpha())
RECURSIVE upper_letters(_)
upper_letters(text) ==
    IF text = <<>> THEN <<>>
    ELSE IF isalpha(Head(text)) THEN upper(Head(text)) \o upper_letters(Tail(text))
    ELSE upper_letters(Tail(text))

\* ord(s) - ord('A'): ord raises TypeError unless s is one character
ord_minus_A(s) ==
    IF Len(s) = 1 THEN Ok(s[1] - OrdA) ELSE Raise("TypeError")

\* [ord(c.upper()) - ord('A') for c in text if c.isalpha()]
RECURSIVE text_to_numbers(_)
text_to_numbers(text) ==
    IF text = <<>> THEN Ok(<<>>)
    ELSE IF ~isalpha(Head(text)) THEN text_to_numbers(Tail(text))
    ELSE LET o == ord_minus_A(upper(Head(text)))
         IN  IF o.err # "none" THEN o
             ELSE LET rest == text_to_numbers(Tail(text))
                  IN  IF rest.err # "none" THEN rest
                      ELSE Ok(<<o.val>> \o rest.val)

\* ''.join(chr(n + ord('A')) for n in numbers)
numbers_to_text(numbers) ==
    [i \in 1..Len(numbers) |-> numbers[i] + OrdA]

(***************************************************************************)
(* HillCipher                                                              *)
(***************************************************************************)
Min(a, b) == IF a < b THEN a ELSE b

RECURSIVE gcd(_, _)
\* np.gcd on non-negative integers
gcd(a, b) == IF b = 0 THEN a ELSE gcd(b, a % b)

\* np.array(key_matrix, dtype=int) succeeds only on rows of one length
homogeneous(key_matrix) ==
    \A i, j \in 1..Len(key_matrix) : Len(key_matrix[i]) = Len(key_matrix[j])

\* np.linalg.det is defined on square arrays only
square(matrix) ==
    \A i \in 1..Len(matrix) : Len(matrix[i]) = Len(matrix)

\* a faulty determinant: the 2x2 products are added instead of subtracted
determinant_added(m) ==
    IF Len(m) = 2 THEN m[1][1] * m[2][2] + m[1][2] * m[2][1]
    ELSE   m[1][1] * (m[2][2] * m[3][3] + m[2][3] * m[3][2])
         - m[1][2] * (m[2][1] * m[3][3] + m[2][3] * m[3][1])
         + m[1][3] * (m[2][1] * m[3][2] + m[2][2] * m[3][1])

\* The determinant of a 2x2 or 3x3 integer matrix.  np.linalg.det works in
\* double precision and the code rounds its result to the nearest integer;
\* on the small entries of this model that is the exact determinant.
determinant(m) ==
    IF Len(m) = 2 THEN m[1][1] * m[2][2] - m[1][2] * m[2][1]
    ELSE   m[1][1] * (m[2][2] * m[3][3] - m[2][3] * m[3][2])
         - m[1][2] * (m[2][1] * m[3][3] - m[2][3] * m[3][1])
         + m[1][3] * (m[2][1] * m[3][2] - m[2][2] * m[3][1])

\* HillCipher._mod_inverse: the first x in 1..m-1 with (a * x) % m = 1
mod_inverse(a0, m) ==
    LET a  == a0 % m
        xs == {x \in 1..(m - 1) : (a * x) % m = 1}
    IN  IF xs = {} THEN Raise("ValueError: Modular inverse does not exist")
        ELSE Ok(CHOOSE x \in xs : \A y \in xs : x <= y)

\* [[matrix[1,1], -matrix[0,1]], [-matrix[1,0], matrix[0,0]]]
adjugate2(m) ==
    << << m[2][2], -m[1][2] >>,
       << -m[2][1], m[1][1] >> >>

\* a faulty 3x3 adjugate: the cofactor matrix is not transposed
adjugate3_cofactors(m) ==
    LET minor(r1, r2, c1, c2) == m[r1][c1] * m[r2][c2] - m[r1][c2] * m[r2][c1]
    IN  << << minor(2, 3, 2, 3), -minor(2, 3, 1, 3), minor(2, 3, 1, 2) >>,
           << -minor(1, 3, 2, 3), minor(1, 3, 1, 3), -minor(1, 3, 1, 2) >>,
           << minor(1, 2, 2, 3), -minor(1, 2, 1, 3), minor(1, 2, 1, 2) >> >>

\* np.round(np.linalg.inv(matrix) * np.linalg.det(matrix)): the adjugate
\* (transposed cofactor matrix) of a 3x3 matrix of non-zero determinant
adjugate3(m) ==
    LET minor(r1, r2, c1, c2) == m[r1][c1] * m[r2][c2] - m[r1][c2] * m[r2][c1]
    IN  << << minor(2, 3, 2, 3), -minor(1, 3, 2, 3), minor(1, 2, 2, 3) >>,
           << -minor(2, 3, 1, 3), minor(1, 3, 1, 3), -minor(1, 2, 1, 3) >>,
           << minor(2, 3, 1, 2), -minor(1, 3, 1, 2), minor(1, 2, 1, 2) >> >>

\* a faulty _mod_inverse_matrix: the adjugate is not multiplied by the
\* inverse of the determinant
mod_inverse_matrix_unscaled(matrix, n) ==
    LET adj == IF n = 2 THEN adjugate2(matrix) ELSE adjugate3(matrix)
    IN  Ok([i \in 1..n |-> [j \in 1..n |-> adj[i][j] % Modulus]])

\* HillCipher._mod_inverse_matrix
mod_inverse_matrix(matrix, n) ==
    LET det     == determinant(matrix) % Modulus
        det_inv == mod_inverse(det, Modulus)
        adj     == IF n = 2 THEN adjugate2(matrix) ELSE adjugate3(matrix)
    IN  IF det_inv.err # "none" THEN det_inv
        ELSE Ok([i \in 1..n |-> [j \in 1..n |-> (det_inv.val * adj[i][j]) % Modulus]])

\* a faulty HillCipher.__init__: only a zero determinant is rejected, the
\* common factor with 26 is not looked at
Hill_init_zero_check_only(key_matrix) ==
    IF ~homogeneous(key_matrix) THEN Raise("ValueError: inhomogeneous shape")
    ELSE IF Len(key_matrix) \notin {2, 3}
    THEN Raise("ValueError: Key matrix must be 2x2 or 3x3")
    ELSE IF ~square(key_matrix) THEN Raise("LinAlgError")
    ELSE LET det == determinant(key_matrix) % Modulus
         IN  IF det = 0
             THEN Raise("ValueError: Key matrix must be invertible modulo 26")
             ELSE LET inv == mod_inverse_matrix(key_matrix, Len(key_matrix))
                  IN  IF inv.err # "none" THEN inv
                      ELSE Ok([kind |-> "HillCipher",
                               key_matrix |-> key_matrix,
                               n |-> Len(key_matrix),
                               inverse_key |-> inv.val])

\* HillCipher.__init__: the instance, or the exception raised
Hill_init(key_matrix) ==
    IF ~homogeneous(key_matrix) THEN Raise("ValueError: inhomogeneous shape")
    ELSE IF Len(key_matrix) \notin {2, 3}
    THEN Raise("ValueError: Key matrix must be 2x2 or 3x3")
    ELSE IF ~square(key_matrix) THEN Raise("LinAlgError")
    ELSE LET det == determinant(key_matrix) % Modulus
         IN  IF det = 0 \/ gcd(det, Modulus) # 1
             THEN Raise("ValueError: Key matrix must be invertible modulo 26")
             ELSE LET inv == mod_inverse_matrix(key_matrix, Len(key_matrix))
                  IN  IF inv.err # "none" THEN inv
                      ELSE Ok([kind |-> "HillCipher",
                               key_matrix |-> key_matrix,
                               n |-> Len(key_matrix),
                               inverse_key |-> inv.val])

\* HillCipher._pad_text
pad_text(n, text0) ==
    LET text      == upper_letters(text0)
        remainder == Len(text) % n
    IN  IF remainder # 0 THEN text \o [i \in 1..(n - remainder) |-> CharX]
        ELSE text

\* a faulty block product: the remainder takes the sign of the dividend, as
\* C's % does, so a negative dot product leaves a negative number
matmul_truncating(matrix, block) ==
    LET n == Len(matrix)
        RECURSIVE dot(_, _)
        dot(row, j) == IF j = 0 THEN 0 ELSE row[j] * block[j] + dot(row, j - 1)
        rem(a) == IF a < 0 THEN -((-a) % Modulus) ELSE a % Modulus
    IN  IF Len(block) # n THEN Raise("ValueError: matmul")
        ELSE Ok([i \in 1..n |-> rem(dot(matrix[i], n))])

\* a faulty block product: block @ matrix, the row vector times the matrix
matmul_mod_transposed(matrix, block) ==
    LET n == Len(matrix)
        RECURSIVE dot(_, _)
        dot(col, j) == IF j = 0 THEN 0 ELSE matrix[j][col] * block[j] + dot(col, j - 1)
    IN  IF Len(block) # n THEN Raise("ValueError: matmul")
        ELSE Ok([i \in 1..n |-> dot(i, n) % Modulus])

\* (matrix @ block) % 26: numpy raises ValueError unless the block has as
\* many entries as the matrix has columns
matmul_mod(matrix, block) ==
    LET n == Len(matrix)
        RECURSIVE dot(_, _)
        dot(row, j) == IF j = 0 THEN 0 ELSE row[j] * block[j] + dot(row, j - 1)
    IN  IF Len(block) # n THEN Raise("ValueError: matmul")
        ELSE Ok([i \in 1..n |-> dot(matrix[i], n) % Modulus])

\* the block loop of encrypt and decrypt:
\* for i in range(0, len(numbers), n): out.extend((matrix @ numbers[i:i+n]) % 26)
RECURSIVE in_blocks(_, _, _)
in_blocks(matrix, n, numbers) ==
    IF numbers = <<>> THEN Ok(<<>>)
    ELSE LET k     == Min(n, Len(numbers))
             block == matmul_mod(matrix, SubSeq(numbers, 1, k))
         IN  IF block.err # "none" THEN block
             ELSE LET rest == in_blocks(matrix, n, SubSeq(numbers, k + 1, Len(numbers)))
                  IN  IF rest.err # "none" THEN rest
                      ELSE Ok(block.val \o rest.val)

\* HillCipher.encrypt
Hill_encrypt(self, plaintext) ==
    LET padded_text == pad_text(self.n, plaintext)
        numbers     == text_to_numbers(padded_text)
    IN  IF numbers.err # "none" THEN numbers
        ELSE LET ciphertext_numbers == in_blocks(self.key_matrix, self.n, numbers.val)
             IN  IF ciphertext_numbers.err # "none" THEN ciphertext_numbers
                 ELSE Ok(numbers_to_text(ciphertext_numbers.val))

\* HillCipher.decrypt
Hill_decrypt(self, ciphertext) ==
    LET numbers == text_to_numbers(ciphertext)
    IN  IF numbers.err # "none" THEN numbers
        ELSE LET plaintext_numbers == in_blocks(self.inverse_key, self.n, numbers.val)
             IN  IF plaintext_numbers.err # "none" THEN plaintext_numbers
                 ELSE Ok(numbers_to_text(plaintext_numbers.val))

(***************************************************************************)
(* VigenereCipher                                                          *)
(***************************************************************************)
\* a faulty VigenereCipher.__init__: the empty key is not rejected
Vigenere_init_unchecked(key0) ==
    LET key == upper_letters(key0)
    IN  Ok([kind |-> "VigenereCipher",
            key |-> key,
            key_numbers |-> [i \in 1..Len(key) |-> key[i] - OrdA]])

\* VigenereCipher.__init__
Vigenere_init(key0) ==
    LET key == upper_letters(key0)
    IN  IF key = <<>>
        THEN Raise("ValueError: Key must contain at least one alphabetic character")
        ELSE Ok([kind |-> "VigenereCipher",
                 key |-> key,
                 key_numbers |-> [i \in 1..Len(key) |-> key[i] - OrdA]])

\* the keyed loop of encrypt (sign = 1) and decrypt (sign = -1):
\* (char_num + sign * key_numbers[i % len(key_numbers)]) % 26 for the i-th number
keyed_shift(key_numbers, text_numbers, sign) ==
    [i \in 1..Len(text_numbers) |->
        (text_numbers[i] + sign * key_numbers[((i - 1) % Len(key_numbers)) + 1]) % Modulus]

\* a faulty VigenereCipher.encrypt: the key position is not reset by a call
\* but resumes where the preceding call on the instance left it
Vigenere_encrypt_resuming(self, plaintext) ==
    LET text         == upper_letters(plaintext)
        text_numbers == text_to_numbers(text)
        start        == IF call.op \in {"encrypt", "decrypt"} THEN Len(call.args[1]) ELSE 0
        rotated      == [i \in 1..Len(self.key_numbers) |->
                            self.key_numbers[((i - 1 + start) % Len(self.key_numbers)) + 1]]
    IN  IF text_numbers.err # "none" THEN text_numbers
        ELSE Ok(numbers_to_text(keyed_shift(rotated, text_numbers.val, 1)))

\* VigenereCipher.encrypt
Vigenere_encrypt(self, plaintext) ==
    LET text         == upper_letters(plaintext)
        text_numbers == text_to_numbers(text)
    IN  IF text_numbers.err # "none" THEN text_numbers
        ELSE Ok(numbers_to_text(keyed_shift(self.key_numbers, text_numbers.val, 1)))

\* VigenereCipher.decrypt
Vigenere_decrypt(self, ciphertext) ==
    LET text         == upper_letters(ciphertext)
        text_numbers == text_to_numbers(text)
    IN  IF text_numbers.err # "none" THEN text_numbers
        ELSE Ok(numbers_to_text(keyed_shift(self.key_numbers, text_numbers.val, -1)))

(***************************************************************************)
(* CipherEngine                                                            *)
(***************************************************************************)
\* a faulty CipherEngine.__init__: VigenereCipher is constructed first
Engine_init_vigenere_first(hill_key, vigenere_key) ==
    LET vigenere_cipher == Vigenere_init(vigenere_key)
    IN  IF vigenere_cipher.err # "none" THEN vigenere_cipher
        ELSE LET hill_cipher == Hill_init(hill_key)
             IN  IF hill_cipher.err # "none" THEN hill_cipher
                 ELSE Ok([kind |-> "CipherEngine",
                          hill_cipher |-> hill_cipher.val,
                          vigenere_cipher |-> vigenere_cipher.val])

\* CipherEngine.__init__: HillCipher first, then VigenereCipher; an
\* exception of either constructor leaves the caller without an instance
Engine_init(hill_key, vigenere_key) ==
    LET hill_cipher == Hill_init(hill_key)
    IN  IF hill_cipher.err # "none" THEN hill_cipher
        ELSE LET vigenere_cipher == Vigenere_init(vigenere_key)
             IN  IF vigenere_cipher.err # "none" THEN vigenere_cipher
                 ELSE Ok([kind |-> "CipherEngine",
                          hill_cipher |-> hill_cipher.val,
                          vigenere_cipher |-> vigenere_cipher.val])

\* CipherEngine.encrypt
Engine_encrypt(self, plaintext) ==
    LET hill_encrypted == Hill_encrypt(self.hill_cipher, plaintext)
    IN  IF hill_encrypted.err # "none" THEN hill_encrypted
        ELSE Vigenere_encrypt(self.vigenere_cipher, hill_encrypted.val)

\* a faulty CipherEngine.decrypt: the stages run in the order of encrypt
Engine_decrypt_hill_first(self, ciphertext) ==
    LET hill_decrypted == Hill_decrypt(self.hill_cipher, ciphertext)
    IN  IF hill_decrypted.err # "none" THEN hill_decrypted
        ELSE Vigenere_decrypt(self.vigenere_cipher, hill_decrypted.val)

\* CipherEngine.decrypt
Engine_decrypt(self, ciphertext) ==
    LET vigenere_decrypted == Vigenere_decrypt(self.vigenere_cipher, ciphertext)
    IN  IF vigenere_decrypted.err # "none" THEN vigenere_decrypted
        ELSE Hill_decrypt(self.hill_cipher, vigenere_decrypted.val)

(***************************************************************************)
(* Dynamic dispatch of encrypt / decrypt on the instance's class           *)
(***************************************************************************)
encrypt(self, text) ==
    CASE self.kind = "HillCipher"     -> Hill_encrypt(self, text)
      [] self.kind = "VigenereCipher" -> Vigenere_encrypt(self, text)
      [] self.kind = "CipherEngine"   -> Engine_encrypt(self, text)

decrypt(self, text) ==
    CASE self.kind = "HillCipher"     -> Hill_decrypt(self, text)
      [] self.kind = "VigenereCipher" -> Vigenere_decrypt(self, text)
      [] self.kind = "CipherEngine"   -> Engine_decrypt(self, text)

(***************************************************************************)
(* Inputs                                                                  *)
(***************************************************************************)
\* all strings over the characters cs of length 0..k
Strings(cs, k) == UNION {[1..n -> cs] : n \in 0..k}

\* 'X', '1', e acute, j caron
TextChars == {CharX, 49, CharEAcute, CharJCaron}
\* 'E', 'X'
CleanChars == {69, CharX}
\* 'S', '1', j caron
KeyChars == {83, 49, CharJCaron}

\* "Hi, 2024!", "HI", "HELLO WORLD", "No labels provided", "a-z", "SECRET",
\* sharp s, "A"
ExampleTexts ==
    { <<72, 105, 44, 32, 50, 48, 50, 52, 33>>,
      <<72, 73>>,
      <<72, 69, 76, 76, 79, 32, 87, 79, 82, 76, 68>>,
      <<78, 111, 32, 108, 97, 98, 101, 108, 115, 32, 112, 114, 111, 118, 105, 100, 101, 100>>,
      <<97, 45, 122>>,
      <<83, 69, 67, 82, 69, 84>>,
      <<CharSharpS>>,
      <<65>> }

Texts == Strings(TextChars, MaxLen) \cup Strings(CleanChars, MaxCleanLen) \cup ExampleTexts

\* "SECRET", "123", "1b"
ExampleVigenereKeys == { <<83, 69, 67, 82, 69, 84>>, <<49, 50, 51>>, <<49, 98>> }

VigenereKeys == Strings(KeyChars, MaxKeyLen) \cup ExampleVigenereKeys

\* all n x n matrices with entries in es
Matrices(n, es) == [1..n -> [1..n -> es]]

\* the keys named by the specification, a key with a negative entry and an
\* entry above 25, and keys of every wrong shape
ExampleHillKeys ==
    { << <<3, 3>>, <<2, 5>> >>,
      << <<1, 1>>, <<1, 1>> >>,
      << <<2, 4>>, <<4, 8>> >>,
      << <<27, -3>>, <<2, 5>> >>,
      << <<6, 24, 1>>, <<13, 16, 10>>, <<20, 17, 15>> >> }

MisshapenHillKeys ==
    { <<>>,
      << <<3>> >>,
      << <<3, 3>>, <<2>> >>,
      << <<3, 3, 1>>, <<2, 5, 1>> >>,
      << <<3, 3>>, <<2, 5>>, <<1, 1>> >>,
      << <<1, 0, 0>>, <<0, 1>>, <<0, 0, 1>> >>,
      << <<1, 0, 0, 0>>, <<0, 1, 0, 0>>, <<0, 0, 1, 0>>, <<0, 0, 0, 1>> >> }

\* rows of the 3x3 keys used for calls
Rows3 == { <<6, 24, 1>>, <<13, 16, 10>>, <<20, 17, 15>>, <<1, 0, -1>> }

HillKeys ==
    Matrices(2, 0..MaxEntry) \cup [1..3 -> Rows3] \cup ExampleHillKeys \cup MisshapenHillKeys

WideHillKeys ==
    Matrices(2, -1..MaxWide2) \cup Matrices(3, 0..MaxWide3)
        \cup ExampleHillKeys \cup MisshapenHillKeys

\* 'X', 'b'
HistoryChars == {CharX, 98}
HistoryTexts == Strings(HistoryChars, MaxHistoryLen)
\* "SECRET", "b"
HistoryVigenereKeys == { <<83, 69, 67, 82, 69, 84>>, <<98>> }

\* "SECRET", "123", "1b", "", j caron
EngineVigenereKeys == ExampleVigenereKeys \cup { <<>>, <<CharJCaron>> }

(***************************************************************************)
(* State: a caller that is given keys, constructs one cipher instance from *)
(* them, obtains a text and calls encrypt / decrypt on the instance          *)
(***************************************************************************)
NoCipher == [kind |-> "none"]

HillArgs(ks) == {[class |-> "HillCipher", key_matrix |-> k] : k \in ks}
VigenereArgs(ks) == {[class |-> "VigenereCipher", key |-> k] : k \in ks}
EngineArgs(hks, vks) ==
    {[class |-> "CipherEngine", hill_key |-> hk, vigenere_key |-> vk] : hk \in hks, vk \in vks}

InitWith(keysets) ==
    /\ given \in keysets
    /\ caption = <<>>
    /\ cipher = NoCipher
    /\ call = [op |-> "none"]
    /\ result = Ok(<<>>)
    /\ seen = <<>>

\* cipher = Class(*args): the caller holds the instance unless the constructor raises
Constructed(r) ==
    /\ cipher = NoCipher
    /\ call.op = "none"
    /\ call' = [op |-> given.class]
    /\ result' = r
    /\ cipher' = IF r.err = "none" THEN r.val ELSE NoCipher
    /\ UNCHANGED <<given, caption, seen>>

NewHillCipher ==
    /\ given.class = "HillCipher"
    /\ Constructed(Hill_init(given.key_matrix))

NewVigenereCipher ==
    /\ given.class = "VigenereCipher"
    /\ Constructed(Vigenere_init(given.key))

NewCipherEngine ==
    /\ given.class = "CipherEngine"
    /\ Constructed(Engine_init(given.hill_key, given.vigenere_key))

\* the caller, holding an instance, obtains the text to work on
GetText ==
    /\ cipher # NoCipher
    /\ caption = <<>>
    /\ \E t \in Texts : caption' = <<t>>
    /\ UNCHANGED <<given, cipher, call, result, seen>>

\* the observer of a sequence of calls: it keeps the first encrypt call and
\* counts the calls that follow it
Observed ==
    seen' = IF seen # <<>> THEN <<seen[1], seen[2], Min(seen[3] + 1, MaxLater)>>
            ELSE IF call'.op = "encrypt" THEN <<call'.args[1], result', 0>>
            ELSE seen

\* a faulty encrypt call: it reduces the key matrix modulo 26 in place
Encrypt_reducing(plaintext) ==
    /\ cipher # NoCipher
    /\ call' = [op |-> "encrypt", args |-> <<plaintext>>, of |-> <<>>]
    /\ result' = encrypt(cipher, plaintext)
    /\ cipher' = IF cipher.kind = "HillCipher"
                 THEN [cipher EXCEPT !.key_matrix =
                          [i \in 1..cipher.n |-> [j \in 1..cipher.n |->
                              cipher.key_matrix[i][j] % Modulus]]]
                 ELSE cipher
    /\ UNCHANGED <<given, caption>>

\* cipher.encrypt(plaintext)
Encrypt(plaintext) ==
    /\ cipher # NoCipher
    /\ call' = [op |-> "encrypt", args |-> <<plaintext>>, of |-> <<>>]
    /\ result' = encrypt(cipher, plaintext)
    /\ UNCHANGED <<given, caption, cipher>>

\* cipher.decrypt(ciphertext); of holds the plaintext when ciphertext is what
\* the preceding encrypt call returned for it
Decrypt(ciphertext, of) ==
    /\ cipher # NoCipher
    /\ call' = [op |-> "decrypt", args |-> <<ciphertext>>, of |-> of]
    /\ result' = decrypt(cipher, ciphertext)
    /\ UNCHANGED <<given, caption, cipher>>

EncryptText ==
    /\ caption # <<>>
    /\ Encrypt(caption[1])
    /\ UNCHANGED seen

DecryptText ==
    /\ caption # <<>>
    /\ Decrypt(caption[1], <<>>)
    /\ UNCHANGED seen

\* decrypt what the preceding encrypt call returned
DecryptReturned ==
    /\ call.op = "encrypt"
    /\ result.err = "none"
    /\ Decrypt(result.val, <<call.args[1]>>)
    /\ UNCHANGED seen

Init ==
    InitWith(HillArgs(HillKeys) \cup VigenereArgs(VigenereKeys)
                 \cup EngineArgs(HillKeys, EngineVigenereKeys))

Next ==
    \/ NewHillCipher
    \/ NewVigenereCipher
    \/ NewCipherEngine
    \/ GetText
    \/ EncryptText
    \/ DecryptText
    \/ DecryptReturned

Spec == Init /\ [][Next]_vars

\* the constructors alone, over wider sets of keys
InitKeys ==
    InitWith(HillArgs(WideHillKeys) \cup VigenereArgs(VigenereKeys)
                 \cup EngineArgs(WideHillKeys, EngineVigenereKeys))

NextKeys ==
    \/ NewHillCipher
    \/ NewVigenereCipher
    \/ NewCipherEngine

SpecKeys == InitKeys /\ [][NextKeys]_vars

\* any sequence of calls, each on a text of its own
InitHistory ==
    InitWith(HillArgs(ExampleHillKeys) \cup VigenereArgs(HistoryVigenereKeys)
                 \cup EngineArgs(ExampleHillKeys, HistoryVigenereKeys))

EncryptAny == (\E t \in HistoryTexts : Encrypt(t)) /\ Observed

DecryptAny == (\E t \in HistoryTexts : Decrypt(t, <<>>)) /\ Observed

DecryptReturnedAny ==
    /\ call.op = "encrypt"
    /\ result.err = "none"
    /\ Decrypt(result.val, <<call.args[1]>>)
    /\ Observed

NextHistory ==
    \/ NewHillCipher
    \/ NewVigenereCipher
    \/ NewCipherEngine
    \/ EncryptAny
    \/ DecryptAny
    \/ DecryptReturnedAny

SpecHistory == InitHistory /\ [][NextHistory]_vars

(***************************************************************************)
(* The key adapter of the web form: parse_hill_key                         *)
(***************************************************************************)
\* Python values a literal can denote: type is the value's class, v the
\* number of an int (the integer part of a float, which is v + 0.5), items
\* the elements of a list or tuple
PyInt(n) == [type |-> "int", v |-> n, items |-> <<>>]
PyFloat(n) == [type |-> "float", v |-> n, items |-> <<>>]
PyStr == [type |-> "str", v |-> 0, items |-> <<>>]
PyList(xs) == [type |-> "list", v |-> 0, items |-> xs]
PyTuple(xs) == [type |-> "tuple", v |-> 0, items |-> xs]

isinstance(x, class) == x.type = class

\* ast.literal_eval(key_str): the value a well-formed literal denotes, or
\* the exception raised for any other text
literal_eval(key_str) ==
    IF key_str.literal THEN Ok(key_str.denotes) ELSE Raise("SyntaxError")

\* parse_hill_key: every exception of the body is re-raised as ValueError
parse_hill_key(key_str) ==
    LET key == literal_eval(key_str)
    IN  IF key.err # "none"
        THEN Raise("ValueError: Invalid Hill cipher key format")
        ELSE IF \/ ~isinstance(key.val, "list")
                \/ ~(\A i \in 1..Len(key.val.items) : isinstance(key.val.items[i], "list"))
        THEN Raise("ValueError: Invalid Hill cipher key format")
        ELSE Ok(key.val)

\* 3, 1.5, [1]
Entries == {PyInt(3), PyFloat(1), PyList(<<PyInt(1)>>)}
Rows == {PyList(xs) : xs \in Strings(Entries, MaxRowLen)}
\* a row, or in its place 3, 'a', (3, 3)
Elements == Rows \cup {PyInt(3), PyStr, PyTuple(<<PyInt(3), PyInt(3)>>)}
\* [[3,3],[2,5]], [[1,2],[3]], [[6,24,1],[13,16,10],[20,17,15]], 5, 'a', ([3,3],[2,5])
ExampleValues ==
    { PyList(<< PyList(<<PyInt(3), PyInt(3)>>), PyList(<<PyInt(2), PyInt(5)>>) >>),
      PyList(<< PyList(<<PyInt(1), PyInt(2)>>), PyList(<<PyInt(3)>>) >>),
      PyList(<< PyList(<<PyInt(6), PyInt(24), PyInt(1)>>),
                PyList(<<PyInt(13), PyInt(16), PyInt(10)>>),
                PyList(<<PyInt(20), PyInt(17), PyInt(15)>>) >>),
      PyInt(5),
      PyStr,
      PyTuple(<< PyList(<<PyInt(3), PyInt(3)>>), PyList(<<PyInt(2), PyInt(5)>>) >>) }
Values == {PyList(xs) : xs \in Strings(Elements, MaxRows)} \cup ExampleValues

\* the texts of the hill_key form field: the literals of Values and a text
\* that is no literal, such as "[[3,3],[2,5"
KeyStrings ==
    {[literal |-> TRUE, denotes |-> x] : x \in Values}
        \cup {[literal |-> FALSE, denotes |-> PyStr]}

\* hill_key = parse_hill_key(hill_key_str)
ParseHillKey ==
    /\ given.class = "parse_hill_key"
    /\ call.op = "none"
    /\ call' = [op |-> "parse_hill_key"]
    /\ result' = parse_hill_key(given.key_str)
    /\ UNCHANGED <<given, caption, cipher, seen>>

InitAdapter == InitWith({[class |-> "parse_hill_key", key_str |-> k] : k \in KeyStrings})

NextAdapter == ParseHillKey

SpecAdapter == InitAdapter /\ [][NextAdapter]_vars

(***************************************************************************)
(* The form handler of the web application: process()                      *)
(***************************************************************************)
\* "No labels provided"
NoLabelsProvided ==
    <<78, 111, 32, 108, 97, 98, 101, 108, 115, 32, 112, 114, 111, 118, 105, 100, 101, 100>>
\* "(No comment found)"
NoCommentFound ==
    <<40, 78, 111, 32, 99, 111, 109, 109, 101, 110, 116, 32, 102, 111, 117, 110, 100, 41>>

\* ', '.join(labels)
RECURSIVE join(_)
join(labels) ==
    IF Len(labels) = 1 THEN labels[1]
    ELSE labels[1] \o <<44, 32>> \o join(Tail(labels))

\* CaptionGenerator.generate_caption, for labels that the caller has
\* stripped and found non-blank, so that clean_labels is labels:
\* "A x", "A x and y", "A x, y, and z"
generate_caption(labels) ==
    IF labels = <<>> THEN NoLabelsProvided
    ELSE IF Len(labels) = 1 THEN <<65, 32>> \o labels[1]
    ELSE IF Len(labels) = 2
    THEN <<65, 32>> \o labels[1] \o <<32, 97, 110, 100, 32>> \o labels[2]
    ELSE <<65, 32>> \o join(SubSeq(labels, 1, Len(labels) - 1))
             \o <<44, 32, 97, 110, 100, 32>> \o labels[Len(labels)]

\* normalize_text: "".join(c.upper() for c in text if c.isalpha())
normalize_text(text) == upper_letters(text)

\* a faulty rstrip: at most one trailing character is removed
rstrip_once(s, chars) ==
    IF s # <<>> /\ s[Len(s)] = chars THEN SubSeq(s, 1, Len(s) - 1) ELSE s

\* str.rstrip(chars) for a single character: every trailing one is removed
RECURSIVE rstrip(_, _)
rstrip(s, chars) ==
    IF s # <<>> /\ s[Len(s)] = chars THEN rstrip(SubSeq(s, 1, Len(s) - 1), chars)
    ELSE s

\* "fox", "cat", "cafe" with e acute
Labels == { <<102, 111, 120>>, <<99, 97, 116>>, <<99, 97, 102, CharEAcute>> }
LabelLists == Strings(Labels, MaxLabels)

\* "SECRET", "123", "1b", j caron: the form handler refuses an empty key field
ProcessVigenereKeys == ExampleVigenereKeys \cup { <<CharJCaron>> }

\* caption = caption_generator.generate_caption(labels) if labels else "No labels provided"
GenerateCaption ==
    /\ cipher.kind = "CipherEngine"
    /\ caption = <<>>
    /\ \E labels \in LabelLists :
          caption' = << IF labels # <<>> THEN generate_caption(labels) ELSE NoLabelsProvided >>
    /\ UNCHANGED <<given, cipher, call, result, seen>>

\* what the request ends in when encrypted_from_meta is read back: an
\* exception of decrypt, or the values handed to the result page
Verified(encrypted_caption, encrypted_from_meta) ==
    LET decrypted_caption ==
            IF encrypted_from_meta # <<>> /\ encrypted_from_meta[1] # <<>>
            THEN decrypt(cipher, encrypted_from_meta[1])
            ELSE Ok(NoCommentFound)
    IN  IF decrypted_caption.err # "none" THEN decrypted_caption
        ELSE LET normalized_original  == normalize_text(caption[1])
                 normalized_decrypted == rstrip(normalize_text(decrypted_caption.val), CharX)
             IN  Ok([encrypted_caption   |-> encrypted_caption,
                     encrypted_from_meta |-> encrypted_from_meta,
                     decrypted_caption   |-> decrypted_caption.val,
                     is_match            |-> normalized_original = normalized_decrypted])

\* the rest of process(): the caption is encrypted and written to the output
\* image, the comment is read back (the comment written, or None, written
\* <<>>, when the image yields no comment), decrypted and compared
Process ==
    /\ cipher.kind = "CipherEngine"
    /\ caption # <<>>
    /\ call.op = "CipherEngine"
    /\ call' = [op |-> "process", args |-> <<caption[1]>>, of |-> <<>>]
    /\ LET encrypted_caption == encrypt(cipher, caption[1])
       IN  IF encrypted_caption.err # "none" THEN result' = encrypted_caption
           ELSE \/ result' = Raise("redirect: Failed to write encrypted caption to image metadata")
                \/ \E encrypted_from_meta \in { <<encrypted_caption.val>>, <<>> } :
                      result' = Verified(encrypted_caption.val, encrypted_from_meta)
    /\ UNCHANGED <<given, caption, cipher, seen>>

InitProcess ==
    InitWith(EngineArgs(ExampleHillKeys \cup MisshapenHillKeys, ProcessVigenereKeys))

NextProcess ==
    \/ NewCipherEngine
    \/ GenerateCaption
    \/ Process

SpecProcess == InitProcess /\ [][NextProcess]_vars

(***************************************************************************)
(* Properties                                                              *)
(***************************************************************************)
\* the order of the key matrix of the instance the caller holds
Order ==
    IF cipher.kind = "HillCipher" THEN cipher.n
    ELSE IF cipher.kind = "CipherEngine" THEN cipher.hill_cipher.n
    ELSE 1

\* a text of the letters A-Z only whose length is a multiple of n
CleanText(p, n) ==
    /\ \A i \in 1..Len(p) : p[i] \in AsciiUpper
    /\ Len(p) % n = 0

\* the last call is a CipherEngine's decrypt of what its encrypt returned for p
EngineRoundTrip(p) ==
    /\ cipher.kind = "CipherEngine"
    /\ call.op = "decrypt"
    /\ call.of = <<p>>

RECURSIVE Flatten(_)
\* the concatenation of a sequence of strings
Flatten(ss) == IF ss = <<>> THEN <<>> ELSE Head(ss) \o Flatten(Tail(ss))

\* p with its non-letters removed and its letters uppercased
LettersUppercased(p) ==
    LET letters == SelectSeq(p, isalpha)
    IN  Flatten([i \in 1..Len(letters) |-> upper(letters[i])])

\* s right-padded with 'X' to the next multiple of n
PaddedWithX(s, n) ==
    s \o [i \in 1..((n - (Len(s) % n)) % n) |-> CharX]

\* C2: on a CipherEngine, for every plaintext p, decrypt of what encrypt
\* returned for p is p with non-letters removed, letters uppercased and
\* right-padded with 'X' to the next multiple of the matrix order.
RoundTripNormalized ==
    (cipher.kind = "CipherEngine" /\ call.op = "decrypt" /\ call.of # <<>>)
        => result = Ok(PaddedWithX(LettersUppercased(call.of[1]), Order))

\* C3: every encrypt and decrypt call on a constructed cipher returns a
\* string: none raises, whatever the characters and the number of letters
\* of its argument.
Totality ==
    call.op \in {"encrypt", "decrypt"} => result.err = "none"

\* k is a square matrix of order n
SquareOfOrder(k, n) ==
    /\ Len(k) = n
    /\ \A i \in 1..n : Len(k[i]) = n

\* the determinant of a square matrix of order 2 or 3 (rule of Sarrus)
Det(k) ==
    IF Len(k) = 2 THEN k[1][1] * k[2][2] - k[1][2] * k[2][1]
    ELSE   k[1][1] * k[2][2] * k[3][3] + k[1][2] * k[2][3] * k[3][1]
         + k[1][3] * k[2][1] * k[3][2] - k[1][3] * k[2][2] * k[3][1]
         - k[1][2] * k[2][1] * k[3][3] - k[1][1] * k[2][3] * k[3][2]

\* d and m have no common divisor above 1
Coprime(d, m) ==
    \A g \in 2..m : ~(d % g = 0 /\ m % g = 0)

\* a square integer matrix of order 2 or 3 that is invertible modulo 26
InvertibleKey(k) ==
    \E n \in {2, 3} :
        /\ SquareOfOrder(k, n)
        /\ Det(k) % Modulus # 0
        /\ Coprime(Det(k) % Modulus, Modulus)

SubstitutionKeyValidation ==
    call.op = "VigenereCipher" =>
        LET key == given.key
        IN  /\ (result.err # "none") <=> (\A i \in 1..Len(key) : ~isalpha(key[i]))
            /\ result.err # "none" => cipher = NoCipher
            /\ result.err = "none" =>
                   /\ cipher.kind = "VigenereCipher"
                   /\ cipher.key = LettersUppercased(key)
            /\ key \in {<<49, 50, 51>>, <<>>} => result.err # "none"
            /\ key = <<83, 69, 67, 82, 69, 84>> => cipher.key = key

\* C5 witness: the key "1b" was accepted and cached as "B"
SubstitutionKeyValidationWitness ==
    /\ call.op = "VigenereCipher"
    /\ given.key = <<49, 98>>
    /\ result.err = "none"
    /\ cipher.key = <<66>>

\* C6: CipherEngine(hill_key, vigenere_key) raises what HillCipher(hill_key)
\* raises; when that constructs, it raises what VigenereCipher(vigenere_key)
\* raises; the caller holds an engine only when both constructed, and the
\* engine then holds both sub-ciphers.
FailFastConstruction ==
    call.op = "CipherEngine" =>
        LET hill     == Hill_init(given.hill_key)
            vigenere == Vigenere_init(given.vigenere_key)
        IN  /\ ~InvertibleKey(given.hill_key) =>
                   /\ result.err # "none"
                   /\ result.err = hill.err
                   /\ cipher = NoCipher
            /\ (/\ InvertibleKey(given.hill_key)
                /\ \A i \in 1..Len(given.vigenere_key) : ~isalpha(given.vigenere_key[i])) =>
                   /\ result.err # "none"
                   /\ result.err = vigenere.err
                   /\ cipher = NoCipher
            /\ cipher # NoCipher =>
                   /\ result.err = "none"
                   /\ cipher.kind = "CipherEngine"
                   /\ cipher.hill_cipher = hill.val
                   /\ cipher.vigenere_cipher = vigenere.val
            /\ (cipher = NoCipher) <=> (result.err # "none")

\* C6 witness: both keys invalid, the matrix key's error is the one raised
FailFastConstructionWitness ==
    /\ call.op = "CipherEngine"
    /\ given.hill_key = << <<1, 1>>, <<1, 1>> >>
    /\ given.vigenere_key = <<49, 50, 51>>
    /\ result.err = "ValueError: Key matrix must be invertible modulo 26"
    /\ cipher = NoCipher

\* C7: CipherEngine.encrypt(p) is VigenereCipher.encrypt of what
\* HillCipher.encrypt(p) returns, and CipherEngine.decrypt(c) is
\* HillCipher.decrypt of what VigenereCipher.decrypt(c) returns, on the
\* engine's own sub-ciphers; what the inner stage raises, the engine raises.
CompositionOrder ==
    /\ (cipher.kind = "CipherEngine" /\ call.op = "encrypt") =>
           LET inner == Hill_encrypt(cipher.hill_cipher, call.args[1])
           IN  IF inner.err = "none"
               THEN result = Vigenere_encrypt(cipher.vigenere_cipher, inner.val)
               ELSE result = inner
    /\ (cipher.kind = "CipherEngine" /\ call.op = "decrypt") =>
           LET inner == Vigenere_decrypt(cipher.vigenere_cipher, call.args[1])
           IN  IF inner.err = "none"
               THEN result = Hill_decrypt(cipher.hill_cipher, inner.val)
               ELSE result = inner

\* C7 witness: [[3,3],[2,5]] and "SECRET" decrypted "ZMQQIBHNSC", which they
\* had returned for "HELLO WORLD", to "HELLOWORLD"
CompositionOrderWitness ==
    /\ EngineRoundTrip(<<72, 69, 76, 76, 79, 32, 87, 79, 82, 76, 68>>)
    /\ given.hill_key = << <<3, 3>>, <<2, 5>> >>
    /\ given.vigenere_key = <<83, 69, 67, 82, 69, 84>>
    /\ call.args[1] = <<90, 77, 81, 81, 73, 66, 72, 78, 83, 67>>
    /\ result = Ok(<<72, 69, 76, 76, 79, 87, 79, 82, 76, 68>>)

\* C8: for every plaintext p, encrypt(p) is what encrypt returns for p with
\* its non-alphabetic characters removed and its letters uppercased.
NonLetterStripping ==
    call.op = "encrypt" =>
        result = encrypt(cipher, LettersUppercased(call.args[1]))

\* C9: no encrypt or decrypt call changes the instance: the key matrix, the
\* inverse matrix and the cached key offsets after the call are those before.
KeyMaterialImmutable ==
    [][cipher # NoCipher => cipher' = cipher]_vars

\* C9 witness: a HillCipher whose key has entries outside 0..25 has served
\* an encrypt call and later calls
KeyMaterialImmutableWitness ==
    /\ cipher.kind = "HillCipher"
    /\ cipher.key_matrix = << <<27, -3>>, <<2, 5>> >>
    /\ cipher.inverse_key = << <<17, 5>>, <<14, 19>> >>
    /\ call.op = "decrypt"
    /\ seen # <<>>
    /\ seen[3] = MaxLater

\* C10: an encrypt call on the argument of the first encrypt call returns
\* what the first one returned, whatever calls were made in between.
Determinism ==
    (call.op = "encrypt" /\ seen # <<>> /\ call.args[1] = seen[1])
        => result = seen[2]

\* C10 witness: "bX" encrypted again by an engine after other calls
DeterminismWitness ==
    /\ cipher.kind = "CipherEngine"
    /\ call.op = "encrypt"
    /\ seen # <<>>
    /\ seen[3] = MaxLater
    /\ call.args[1] = <<98, CharX>>
    /\ seen[1] = <<98, CharX>>
    /\ result.err = "none"

\* C11: every string an encrypt call returns, from HillCipher, VigenereCipher
\* or CipherEngine, consists only of the letters 'A'..'Z', whatever the text
\* and whatever the sign or size of the key's entries
CiphertextAlphabet ==
    (call.op = "encrypt" /\ result.err = "none")
        => \A i \in 1..Len(result.val) : result.val[i] \in AsciiUpper

\* a key with a negative entry and an entry above 25 has encrypted a text
\* that holds a letter outside A-Z
CiphertextAlphabetWitness ==
    /\ cipher.kind = "HillCipher"
    /\ cipher.key_matrix = << <<27, -3>>, <<2, 5>> >>
    /\ call.op = "encrypt"
    /\ \E i \in 1..Len(call.args[1]) : call.args[1][i] = CharEAcute
    /\ result.err = "none"
    /\ Len(result.val) > 0

\* what the constructor expects: a list of lists of one length, of integers
IntegerMatrix(x) ==
    /\ x.type = "list"
    /\ \A i \in 1..Len(x.items) :
          /\ x.items[i].type = "list"
          /\ Len(x.items[i].items) = Len(x.items[1].items)
          /\ \A j \in 1..Len(x.items[i].items) : x.items[i].items[j].type = "int"

\* C12: parse_hill_key raises for every textual key that does not denote a
\* list of equal-length lists of integers, so whatever it returns (and the
\* form handler hands to the constructor) is such a list
KeyAdapterValidation ==
    (call.op = "parse_hill_key" /\ result.err = "none") => IntegerMatrix(result.val)

\* the letters of p are all among a-z and A-Z
AsciiLettersOnly(p) ==
    \A i \in 1..Len(p) : isalpha(p[i]) => p[i] \in AsciiUpper \cup AsciiLower

\* row r of the n x n matrix m times the n entries of x that follow x[at]
RowTimesBlock(m, n, r, x, at) ==
    IF n = 2 THEN m[r][1] * x[at + 1] + m[r][2] * x[at + 2]
    ELSE m[r][1] * x[at + 1] + m[r][2] * x[at + 2] + m[r][3] * x[at + 3]

\* C13: HillCipher.encrypt of a text whose padded letters have the values
\* x (each in 0..25) returns as many letters as x has values, and the
\* letters of its j-th block of n have the values (K * (j-th block of x))
\* mod 26, so a block of the output depends on its own input block only
HillBlockEncryption ==
    (/\ cipher.kind = "HillCipher"
     /\ call.op = "encrypt"
     /\ AsciiLettersOnly(call.args[1]))
        => LET n      == cipher.n
               padded == PaddedWithX(LettersUppercased(call.args[1]), n)
               x      == [i \in 1..Len(padded) |-> padded[i] - OrdA]
           IN  /\ result.err = "none"
               /\ Len(result.val) = Len(x)
               /\ \A j \in 0..((Len(x) \div n) - 1) : \A r \in 1..n :
                     result.val[j * n + r] - OrdA
                         = RowTimesBlock(cipher.key_matrix, n, r, x, j * n) % Modulus

\* with the key [[3,3],[2,5]] the block "HE" of "HELLO WORLD" became "HI"
HillBlockEncryptionWitness ==
    /\ cipher.kind = "HillCipher"
    /\ cipher.key_matrix = << <<3, 3>>, <<2, 5>> >>
    /\ call.op = "encrypt"
    /\ call.args[1] = <<72, 69, 76, 76, 79, 32, 87, 79, 82, 76, 68>>
    /\ result.err = "none"
    /\ SubSeq(result.val, 1, 2) = <<72, 73>>
    /\ Len(result.val) = 10

\* the HillCipher the caller holds, itself or inside its CipherEngine
HeldHillCipher ==
    IF cipher.kind = "CipherEngine" THEN cipher.hill_cipher ELSE cipher

\* entry (i, j) of the product of the n x n matrices a and b
ProductEntry(a, b, n, i, j) ==
    IF n = 2 THEN a[i][1] * b[1][j] + a[i][2] * b[2][j]
    ELSE a[i][1] * b[1][j] + a[i][2] * b[2][j] + a[i][3] * b[3][j]

Letters(p) == SelectSeq(p, isalpha)

\* C15: VigenereCipher.encrypt returns one letter for each letter of its
\* input and no more, and the i-th of them (counting letters only) has the
\* value (v_i + k_(i mod L)) mod 26, v_i being the value of the i-th letter
\* of the input and k the key's offsets
VigenereFormula ==
    (cipher.kind = "VigenereCipher" /\ call.op = "encrypt")
        => LET letters == Letters(call.args[1])
               k       == cipher.key_numbers
           IN  /\ result.err = "none"
               /\ Len(result.val) = Len(letters)
               /\ \A i \in 1..Len(letters) :
                     result.val[i] - OrdA
                         = (upper(letters[i])[1] - OrdA + k[((i - 1) % Len(k)) + 1]) % Modulus

\* the smallest multiple of n that is at least k
NextMultiple(k, n) == ((k + n - 1) \div n) * n

\* C16: HillCipher.encrypt, and so CipherEngine.encrypt, pads with fewer
\* than n letters and only when the input's letter count is not a multiple
\* of n: the ciphertext has as many letters as the smallest multiple of n
\* that is at least the number of letters of the input, and an input with
\* no letters encrypts to the empty string
PaddingPolicy ==
    (cipher.kind \in {"HillCipher", "CipherEngine"} /\ call.op = "encrypt")
        => /\ result.err = "none"
           /\ Len(result.val) = NextMultiple(Len(Letters(call.args[1])), Order)

\* C17: the scan of _mod_inverse finds an inverse for every residue that
\* passes the invertibility check, and no key handed to the HillCipher
\* constructor, accepted or rejected, makes it raise 'Modular inverse does
\* not exist'
NoModularInverseUnreachable ==
    /\ \A d \in 1..(Modulus - 1) :
          gcd(d, Modulus) = 1
              => /\ mod_inverse(d, Modulus).err = "none"
                 /\ mod_inverse(d, Modulus).val \in 1..(Modulus - 1)
                 /\ (d * mod_inverse(d, Modulus).val) % Modulus = 1
    /\ call.op \in {"HillCipher", "CipherEngine"}
          => result.err # "ValueError: Modular inverse does not exist"

\* a key of determinant -1, residue 25, passed the check and the scan ran
\* to its last candidate, 25
NoModularInverseUnreachableWitness ==
    /\ call.op = "HillCipher"
    /\ given.key_matrix = << <<0, 1>>, <<1, 0>> >>
    /\ result.err = "none"
    /\ determinant(given.key_matrix) % Modulus = 25
    /\ mod_inverse(25, Modulus) = Ok(25)
    /\ cipher.inverse_key = << <<0, 1>>, <<1, 0>> >>

\* the VigenereCipher the caller holds, itself or inside its CipherEngine
HeldVigenereCipher ==
    IF cipher.kind = "CipherEngine" THEN cipher.vigenere_cipher ELSE cipher

\* C18: every cached key offset, and every number that a text handed to
\* encrypt or decrypt is converted to, lies in 0..25
AlphabetMappingRange ==
    /\ cipher.kind \in {"VigenereCipher", "CipherEngine"}
          => \A i \in 1..Len(HeldVigenereCipher.key_numbers) :
                HeldVigenereCipher.key_numbers[i] \in 0..(Modulus - 1)
    /\ call.op \in {"encrypt", "decrypt"}
          => LET numbers == text_to_numbers(call.args[1])
             IN  /\ numbers.err = "none"
                 /\ \A i \in 1..Len(numbers.val) : numbers.val[i] \in 0..(Modulus - 1)

\* C19: on a VigenereCipher, for every string t, encrypt returns and decrypt
\* of what it returned is t with non-letters removed and letters uppercased
VigenereRoundTrip ==
    /\ (cipher.kind = "VigenereCipher" /\ call.op = "encrypt") => result.err = "none"
    /\ (cipher.kind = "VigenereCipher" /\ call.op = "decrypt" /\ call.of # <<>>)
          => result = Ok(LettersUppercased(call.of[1]))

\* the last step was process() reading back the comment it had written
ReadBackWritten ==
    /\ call.op = "process"
    /\ result.err = "none"
    /\ result.val.encrypted_from_meta = <<result.val.encrypted_caption>>

EndsInLetterX(p) ==
    LET letters == normalize_text(p)
    IN  letters # <<>> /\ letters[Len(letters)] = CharX

====
